---------------------------- MODULE Spec2Model ----------------------------
(***************************************************************************)
(* Model of handlers/memcached/std/handler.go (package std of rend): one   *)
(* Handler over one buffered connection to a memcached server speaking     *)
(* the binary protocol.                                                    *)
(*                                                                         *)
(* The read stream is a sequence of tokens: a response header is one       *)
(* token (the 24 header bytes are read as a unit by ReadResponseHeader),   *)
(* a body byte is one token.  Every token says whether the command now     *)
(* running made the server send it, so that "this command parsed its own   *)
(* response header" is a fact of the state.                                *)
(***************************************************************************)
EXTENDS Naturals, Sequences, FiniteSets

\* ------------------------------------------------------------------ bounds
MaxBody == 2
\* Payload lengths of a SetRequest (len(cmd.Data)).
PayloadLens == {0, 2}
MaxBatch == 3

Keys == {"k1", "k2"}

\* ------------------------------------------------------------------ codec
Statuses == {"OK", "KeyNotFound", "KeyExists", "Other"}

MutationKinds == {"Set", "Add", "Replace", "Append", "Prepend"}

IOErrors == {"ioWrite", "ioFlush", "ioRead", "ioDiscard"}

\* binprot.DecodeError: the status of a header as an error value.
DecodeError(h) ==
    CASE h.status = "OK" -> "nil"
      [] h.status = "KeyNotFound" -> "ErrKeyNotFound"
      [] h.status = "KeyExists" -> "ErrKeyExists"
      [] OTHER -> "ErrGeneric"

\* binprot.ResponseHeader{}: the zero header readResponseHeader returns when
\* ReadResponseHeader itself failed.
ZeroHeader == [status |-> "OK", TotalBodyLength |-> 0]

\* No header object: nothing was handed to the pool.
NoHeader == [status |-> "none", TotalBodyLength |-> 0]

NoToken == [t |-> "none", own |-> FALSE, status |-> "OK", TotalBodyLength |-> 0]

HeaderToken(s, n) == [t |-> "H", own |-> TRUE, status |-> s, TotalBodyLength |-> n]

BodyToken == [t |-> "B", own |-> TRUE, status |-> "OK", TotalBodyLength |-> 0]

BodyTokens(n) == [i \in 1..n |-> BodyToken]

\* The stream as the next command finds it: what is left belongs to earlier
\* commands.
Stale(s) == [i \in 1..Len(s) |-> [s[i] EXCEPT !.own = FALSE]]

\* What ReadResponseHeader decodes from the token at the head of the stream.
\* A header token decodes to itself; body bytes left over by an earlier
\* response decode to an arbitrary header.
Decoded(tok) ==
    IF tok.t = "H"
    THEN {[status |-> tok.status, TotalBodyLength |-> tok.TotalBodyLength]}
    ELSE [status : Statuses, TotalBodyLength : 0..MaxBody]

VARIABLES
    wbuf,       \* h.rw.Writer: items written and not yet flushed
    werr,       \* h.rw.Writer's sticky error
    rstream,    \* h.rw.Reader: tokens the server sent and nobody consumed yet
    store,      \* the server: keys present
    broken,     \* a call returned a transport error: the Handler is given up
    cpc,        \* position of the caller inside a synchronous call
    creq,       \* the synchronous call's request
    resHeader,  \* handleSetCommon's local resHeader
    herr,       \* handleSetCommon's local err
    pooled,     \* the header object PutResponseHeader handed to the pool
    wireHdr,    \* the token the current call decoded as its response header
    elog,       \* connection operations of the current call, in order
    ret,        \* the last completed synchronous call and what it returned
    prevAddExists, \* the call before the current one was an Add that returned ErrKeyExists
    startClean, \* the read stream was empty when the current call started
    gat,        \* GAT's cmd, the err of its getLocal and the response it returned
    tpc,        \* position of the batch task (goroutine realHandleGet[E])
    treq,       \* the batch task's cmd and whether it is a GetE
    tidx,       \* the batch task's loop index (1-based)
    tval,       \* the value the batch task is about to send
    dataClosed, \* close(dataOut) has run
    errClosed,  \* close(errorOut) has run
    recvd,      \* responses the consumer received from dataOut
    recvErr,    \* errors the consumer received from errorOut
    abandoned,  \* the consumer stopped receiving
    blog        \* events of the current batch, in order

conn == <<wbuf, werr, rstream, store>>
caller == <<cpc, creq, resHeader, herr, pooled, wireHdr, elog, ret, prevAddExists,
           startClean, gat>>
batch == <<tpc, treq, tidx, tval, dataClosed, errClosed, recvd, recvErr, abandoned, blog>>
vars == <<conn, broken, caller, batch>>

NoReq == [kind |-> "none", key |-> "k1", len |-> 0]
NoRet == [kind |-> "none", err |-> "nil", own |-> FALSE, got |-> FALSE,
          status |-> "OK", declared |-> 0, wire |-> 0, consumed |-> 0, reused |-> FALSE]
NoBatch == [isE |-> FALSE, Keys |-> <<>>, Quiet |-> <<>>, Opaques |-> <<>>]
NoVal == [t |-> "none"]

\* common.GATRequest: Key and Opaque (Exptime goes to the codec untouched).
GATRequests == [Key : Keys, Opaque : {7, 9}]

\* common.DeleteRequest and common.TouchRequest: the key.
DeleteRequests == [Key : Keys]

TouchRequests == [Key : Keys]

NoGat == [cmd |-> [Key |-> "k1", Opaque |-> 0], err |-> "nil", resp |-> NoVal]

\* common.GetResponse{}: the zero response GAT returns beside an error.
ZeroGetResponse ==
    [t |-> "data", Miss |-> FALSE, Quiet |-> FALSE, Opaque |-> 0, Key |-> "nil",
     Data |-> "nil"]

\* common.SetRequest: the key and the payload (its length is all the Handler
\* looks at; Flags and Exptime go to the codec untouched).
SetRequests == [kind : {"req"}, key : Keys, len : PayloadLens]

\* ----------------------------------------------------------------- server
\* The server's answer to one command: a status that fits its store, the
\* store afterwards, and any declared body length.
ServerAnswers(kind, key) ==
    LET fail == {[status |-> "Other", store |-> store]}
        ok(s) == {[status |-> "OK", store |-> s]}
        miss == {[status |-> "KeyNotFound", store |-> store]}
    IN  CASE kind = "Set" -> ok(store \cup {key}) \cup fail
          [] kind = "Add" ->
               IF key \in store
               THEN {[status |-> "KeyExists", store |-> store]}
               ELSE ok(store \cup {key}) \cup fail
          [] kind \in {"Replace", "Append", "Prepend"} ->
               IF key \in store THEN ok(store) \cup fail ELSE miss
          [] kind = "Delete" ->
               IF key \in store THEN ok(store \ {key}) \cup fail ELSE miss \cup fail
          [] OTHER ->
               IF key \in store THEN ok(store) \cup fail ELSE miss \cup fail

\* The tokens the server puts on the read stream for the running command.
Response(status, n) == <<HeaderToken(status, n)>> \o BodyTokens(n)

\* ------------------------------------------------------------------ bufio
\* The read stream after a transport error: the connection is dead and what
\* it still held is read by nobody.
Dead == <<>>

\* bufio.Reader.Discard(n) on stream s: the possible (rest, n discarded, err).
\* Discard(0) returns at once with no error; a failing Discard has taken
\* fewer than n tokens.
Discard(s, n) ==
    {[rest |-> IF j = n THEN SubSeq(s, j + 1, Len(s)) ELSE Dead, n |-> j,
      err |-> IF j = n THEN "nil" ELSE "ioDiscard"] : j \in {i \in 0..n : i <= Len(s)}}

\* A connection operation of a call: its name, its count (bytes of a
\* payload write or a discard, headers released by a header read) and
\* whether it succeeded.
Event(e, n, ok) == [e |-> e, n |-> n, ok |-> ok]

Init ==
    /\ wbuf = <<>>
    /\ werr = FALSE
    /\ rstream = <<>>
    /\ store \in SUBSET Keys
    /\ broken = FALSE
    /\ cpc = "idle"
    /\ creq = NoReq
    /\ resHeader = ZeroHeader
    /\ herr = "nil"
    /\ pooled = NoHeader
    /\ wireHdr = NoToken
    /\ elog = <<>>
    /\ ret = NoRet
    /\ prevAddExists = FALSE
    /\ startClean = TRUE
    /\ gat = NoGat
    /\ tpc = "none"
    /\ treq = NoBatch
    /\ tidx = 1
    /\ tval = NoVal
    /\ dataClosed = FALSE
    /\ errClosed = FALSE
    /\ recvd = <<>>
    /\ recvErr = <<>>
    /\ abandoned = FALSE
    /\ blog = <<>>


\* ------------------------------------------------------ readResponseHeader
\* The header of a classified error is released a second time.
readResponseHeaderReleasingTwice(s) ==
    {[hdr |-> ZeroHeader, err |-> "ioRead", rest |-> Dead, put |-> NoHeader,
      puts |-> 0, tok |-> NoToken]}
    \cup (IF s = <<>> THEN {}
          ELSE {[hdr |-> h, err |-> DecodeError(h), rest |-> Tail(s), put |-> h,
                 puts |-> IF DecodeError(h) # "nil" THEN 2 ELSE 1,
                 tok |-> Head(s)] : h \in Decoded(Head(s))})

\* readResponseHeader(r) on stream s: the possible outcomes.  hdr and err are
\* the values returned, rest the stream afterwards, put the copy handed to
\* PutResponseHeader (binprot.ResponseHeader is passed by value), puts the
\* number of calls of PutResponseHeader, tok the token that was decoded.
\* ReadResponseHeader failing returns the zero header and releases nothing.
readResponseHeader(s) ==
    {[hdr |-> ZeroHeader, err |-> "ioRead", rest |-> Dead, put |-> NoHeader,
      puts |-> 0, tok |-> NoToken]}
    \cup (IF s = <<>> THEN {}
          ELSE {[hdr |-> h, err |-> DecodeError(h), rest |-> Tail(s), put |-> h,
                 puts |-> 1, tok |-> Head(s)] : h \in Decoded(Head(s))})

\* ------------------------------------------------- the synchronous caller
\* A call may start when no call is running on the Handler, the Handler has
\* not been given up after a transport error, and no batch is in flight.
CanCall ==
    /\ cpc = "idle"
    /\ ~broken
    /\ tpc \in {"none", "done"}

ResetBatch ==
    /\ tpc' = "none"
    /\ treq' = NoBatch
    /\ tidx' = 1
    /\ tval' = NoVal
    /\ dataClosed' = FALSE
    /\ errClosed' = FALSE
    /\ recvd' = <<>>
    /\ recvErr' = <<>>
    /\ abandoned' = FALSE
    /\ blog' = <<>>

ResetLocals ==
    /\ creq' = NoReq
    /\ resHeader' = ZeroHeader
    /\ herr' = "nil"
    /\ pooled' = NoHeader
    /\ wireHdr' = NoToken

\* The caller closes the Handler after a transport error (Close: "any calls
\* to the handler after Close is called are invalid"); the model also stops
\* following a connection once a command has decoded bytes that were not
\* its own response header.
GivenUp(err) == err \in IOErrors \/ (wireHdr.t # "none" /\ ~(wireHdr.t = "H" /\ wireHdr.own))

\* The value a synchronous call leaves behind when it returns err.
Returned(kind, err, n) ==
    [kind |-> kind, err |-> err,
     own |-> wireHdr.t = "H" /\ wireHdr.own,
     got |-> wireHdr.t # "none",
     status |-> resHeader.status, declared |-> resHeader.TotalBodyLength,
     wire |-> wireHdr.TotalBodyLength,
     consumed |-> n, reused |-> (pooled # NoHeader /\ pooled # resHeader)]

\* binprot.Write<Kind>Cmd(h.rw.Writer, key, flags, exptime, len(data), 0) and,
\* when it fails, the return of its error.
WriteCmd(kind, cmd) ==
    /\ CanCall
    /\ prevAddExists' = (ret.kind = "Add" /\ ret.err = "ErrKeyExists")
    /\ startClean' = (rstream = <<>>)
    /\ ResetBatch
    /\ rstream' = Stale(rstream)
    /\ gat' = NoGat
    /\ UNCHANGED store
    /\ \E ok \in BOOLEAN :
         IF ok
         THEN /\ wbuf' = Append(wbuf, [t |-> "cmd", kind |-> kind, key |-> cmd.key,
                                       len |-> cmd.len, opaque |-> 0])
              /\ elog' = <<Event("cmd", 0, TRUE)>>
              /\ creq' = [kind |-> kind, key |-> cmd.key, len |-> cmd.len]
              /\ UNCHANGED <<resHeader, herr, pooled, wireHdr>>
              /\ cpc' = "payload"
              /\ ret' = NoRet
              /\ UNCHANGED <<werr, broken>>
         ELSE /\ werr' = TRUE
              /\ elog' = <<Event("cmd", 0, FALSE)>>
              /\ ResetLocals
              /\ cpc' = "idle"
              /\ broken' = TRUE
              /\ ret' = [NoRet EXCEPT !.kind = kind, !.err = "ioWrite"]
              /\ UNCHANGED wbuf

Set(cmd) == WriteCmd("Set", cmd)

Add(cmd) == WriteCmd("Add", cmd)

Replace(cmd) == WriteCmd("Replace", cmd)

Append_(cmd) == WriteCmd("Append", cmd)

Prepend(cmd) == WriteCmd("Prepend", cmd)

\* handleSetCommon, h.rw.Write(cmd.Data): the error is dropped; a failed
\* write leaves the writer's sticky error set.
WritePayload ==
    /\ cpc = "payload"
    /\ cpc' = "flush"
    /\ \E ok \in (IF creq.len = 0 THEN {TRUE} ELSE BOOLEAN) :
         /\ elog' = Append(elog, Event("data", creq.len, ok))
         /\ IF ok
            THEN wbuf' = Append(wbuf, [t |-> "data", kind |-> creq.kind, key |-> creq.key,
                                       len |-> creq.len, opaque |-> 0])
                 /\ UNCHANGED werr
            ELSE werr' = TRUE /\ UNCHANGED wbuf
    /\ UNCHANGED <<rstream, store, broken, creq, resHeader, herr, pooled, wireHdr,
                   ret, prevAddExists, startClean, gat, batch>>

\* A flush that forgets the writer's sticky error.
FlushOutcomesForgettingWriteError(kind, key) ==
    {[err |-> "ioFlush", rstream |-> Dead, store |-> store]}
    \cup {[err |-> "nil", rstream |-> rstream \o Response(a.status, n),
            store |-> a.store] : a \in ServerAnswers(kind, key), n \in 0..MaxBody}

\* h.rw.Flush() with the server answering the one command flushed: the
\* connection afterwards, or the flush error.
FlushOutcomes(kind, key) ==
    {[err |-> "ioFlush", rstream |-> Dead, store |-> store]}
    \cup (IF werr THEN {}
          ELSE {[err |-> "nil", rstream |-> rstream \o Response(a.status, n),
                 store |-> a.store] : a \in ServerAnswers(kind, key), n \in 0..MaxBody})

\* The response header is read with nothing flushed.
FlushLeftOut ==
    /\ cpc = "flush"
    /\ cpc' = "rhdr"
    /\ rstream' = rstream \o Response("OK", 0)
    /\ UNCHANGED <<wbuf, werr, store, broken, creq, resHeader, herr, pooled, wireHdr,
                   elog, ret, prevAddExists, startClean, gat, batch>>

\* handleSetCommon, h.rw.Flush() and the return of its error.
Flush ==
    /\ cpc = "flush"
    /\ \E f \in FlushOutcomes(creq.kind, creq.key) :
         /\ rstream' = f.rstream
         /\ store' = f.store
         /\ elog' = Append(elog, Event("flush", 0, f.err = "nil"))
         /\ IF f.err = "nil"
            THEN /\ wbuf' = <<>>
                 /\ cpc' = "rhdr"
                 /\ UNCHANGED <<broken, ret, creq, resHeader, herr, pooled, wireHdr>>
            ELSE /\ cpc' = "idle"
                 /\ broken' = TRUE
                 /\ ret' = Returned(creq.kind, f.err, 0)
                 /\ ResetLocals
                 /\ UNCHANGED wbuf
    /\ UNCHANGED <<werr, prevAddExists, startClean, gat, batch>>

\* handleSetCommon, resHeader, err := readResponseHeader(h.rw.Reader).
ReadHeader ==
    /\ cpc = "rhdr"
    /\ cpc' = "discard"
    /\ \E r \in readResponseHeader(rstream) :
         /\ resHeader' = r.hdr
         /\ herr' = r.err
         /\ pooled' = r.put
         /\ wireHdr' = r.tok
         /\ rstream' = r.rest
         /\ elog' = Append(elog, Event("rhdr", r.puts, r.err # "ioRead"))
    /\ UNCHANGED <<wbuf, werr, store, broken, creq, ret, prevAddExists,
                   startClean, gat, batch>>

\* Another goroutine takes the released header object out of the pool and
\* decodes a different response into it.
PoolReuse ==
    /\ cpc = "discard"
    /\ pooled # NoHeader
    /\ \E n \in 0..MaxBody :
         /\ n # pooled.TotalBodyLength
         /\ pooled' = [pooled EXCEPT !.TotalBodyLength = n]
    /\ UNCHANGED <<conn, broken, cpc, creq, resHeader, herr, wireHdr, elog,
                   ret, prevAddExists, startClean, gat, batch>>

\* The pool's object standing in for the local header.
DiscardLenAliased == IF pooled = NoHeader THEN resHeader.TotalBodyLength
                     ELSE pooled.TotalBodyLength

\* The length of the zero header stands in for the decoded one: nothing
\* is discarded.
DiscardLenOfZeroHeader == ZeroHeader.TotalBodyLength

\* handleSetCommon, int(resHeader.TotalBodyLength): read from the local copy.
DiscardLen == resHeader.TotalBodyLength

\* The classified error whatever the discard did.
SetCommonResultIgnoringDiscard(err, ioerr) == err

\* handleSetCommon, the value returned once err != nil: the discard's error
\* if it has one, the error of readResponseHeader otherwise.
SetCommonResult(err, ioerr) == IF ioerr # "nil" THEN ioerr ELSE err

\* Only Set discards; Add and Replace take their error as an answer.
DiscardsBodyOnlyForSet(kind, err) == err # "nil" /\ kind = "Set"

\* handleSetCommon, if err != nil: the body is discarded for every kind.
DiscardsBody(kind, err) == err # "nil"

\* handleSetCommon from the test of err to the return.
Finish ==
    /\ cpc = "discard"
    /\ cpc' = "idle"
    /\ IF DiscardsBody(creq.kind, herr)
       THEN \E d \in Discard(rstream, DiscardLen) :
              /\ rstream' = d.rest
              /\ elog' = Append(elog, Event("discard", DiscardLen, d.err = "nil"))
              /\ ret' = Returned(creq.kind, SetCommonResult(herr, d.err), d.n)
              /\ broken' = GivenUp(SetCommonResult(herr, d.err))
       ELSE /\ ret' = Returned(creq.kind, herr, 0)
            /\ broken' = GivenUp(herr)
            /\ UNCHANGED <<rstream, elog>>
    /\ ResetLocals
    /\ UNCHANGED <<wbuf, werr, store, prevAddExists, startClean, gat, batch>>

\* ---------------------------------------------------------- batched get
\* The Quiet flags and Opaques tokens of a request: neighbouring keys carry
\* different ones, starting with either.
Quiets(n, b) == [i \in 1..n |-> IF i % 2 = 1 THEN b ELSE ~b]

Opaques(n, b) == [i \in 1..n |-> IF (i % 2 = 1) = b THEN 7 ELSE 9]

\* common.GetRequest: Keys, Quiet and Opaques, parallel sequences.
GetRequestsOfLen(n) ==
    {[Keys |-> ks, Quiet |-> Quiets(n, b), Opaques |-> Opaques(n, b)] :
        ks \in [1..n -> Keys], b \in BOOLEAN}

GetRequests == UNION {GetRequestsOfLen(n) : n \in 0..MaxBatch}

\* An event of a batch: what happened, for which key index, and for a read
\* the error getLocal returned.
BatchEvent(e, i, r) == [e |-> e, i |-> i, r |-> r]

\* Get / GetE: make the two channels, start the goroutine, return.  The
\* model follows a connection holding unread bytes through one more
\* synchronous command only, so a batch starts on an empty read stream.
StartBatch(isE, cmd) ==
    /\ CanCall
    /\ rstream = <<>>
    /\ prevAddExists' = FALSE
    /\ startClean' = (rstream = <<>>)
    /\ rstream' = Stale(rstream)
    /\ ResetLocals
    /\ elog' = <<>>
    /\ ret' = NoRet
    /\ gat' = NoGat
    /\ tpc' = "loop"
    /\ treq' = [isE |-> isE, Keys |-> cmd.Keys, Quiet |-> cmd.Quiet, Opaques |-> cmd.Opaques]
    /\ tidx' = 1
    /\ tval' = NoVal
    /\ dataClosed' = FALSE
    /\ errClosed' = FALSE
    /\ recvd' = <<>>
    /\ recvErr' = <<>>
    /\ abandoned' = FALSE
    /\ blog' = <<>>
    /\ UNCHANGED <<wbuf, werr, store, broken, cpc>>

Get(cmd) == StartBatch(FALSE, cmd)

GetE(cmd) == StartBatch(TRUE, cmd)

\* realHandleGet[E], for idx, key := range cmd.Keys: the loop is over.
TaskLoopEnd ==
    /\ tpc = "loop"
    /\ tidx > Len(treq.Keys)
    /\ tpc' = "closeData"
    /\ UNCHANGED <<conn, broken, caller, treq, tidx, tval, dataClosed, errClosed, recvd,
                   recvErr, abandoned, blog>>

\* The goroutine returns without sending the error.
OnErrorReturn == "closeData"

\* realHandleGet[E], errorOut <- err stands before the return.
OnError == "sendErr"

\* realHandleGet[E], binprot.WriteGet[E]Cmd(rw.Writer, key, 0).
TaskWrite ==
    /\ tpc = "loop"
    /\ tidx <= Len(treq.Keys)
    /\ \E ok \in BOOLEAN :
         IF ok
         THEN /\ wbuf' = Append(wbuf, [t |-> "cmd", kind |-> IF treq.isE THEN "GetE" ELSE "Get",
                                       key |-> treq.Keys[tidx], len |-> 0, opaque |-> 0])
              /\ blog' = Append(blog, BatchEvent("write", tidx, "nil"))
              /\ tpc' = "read"
              /\ UNCHANGED <<werr, tval>>
         ELSE /\ werr' = TRUE
              /\ tval' = [t |-> "err", err |-> "ioWrite"]
              /\ tpc' = OnError
              /\ UNCHANGED <<wbuf, blog>>
    /\ UNCHANGED <<rstream, store, broken, caller, treq, tidx, dataClosed, errClosed,
                   recvd, recvErr, abandoned>>

\* getLocal(rw, readExp): flush, read the response header, consume the body
\* the header declares; the possible (err, rstream, store), and whether the
\* header decoded was the command's own.
getLocal(key) ==
    LET afterHeader(f) ==
            UNION {IF r.err = "ioRead"
                   THEN {[err |-> "ioRead", rstream |-> r.rest, store |-> f.store, own |-> TRUE]}
                   ELSE {[err |-> IF d.err = "nil" THEN r.err
                                  ELSE IF r.err = "nil" THEN "ioRead" ELSE "ioDiscard",
                          rstream |-> d.rest, store |-> f.store,
                          own |-> r.tok.t = "H" /\ r.tok.own] :
                            d \in Discard(r.rest, r.hdr.TotalBodyLength)} :
                   r \in readResponseHeader(f.rstream)}
    IN  UNION {IF f.err # "nil"
               THEN {[err |-> f.err, rstream |-> f.rstream, store |-> f.store, own |-> TRUE]}
               ELSE afterHeader(f) : f \in FlushOutcomes("Get", key)}

\* Every non-nil error ends the batch.
IsMissNever(err) == FALSE

\* A generic error of the server is taken for a miss.
IsMissOrGeneric(err) == err \in {"ErrKeyNotFound", "ErrGeneric"}

\* realHandleGet[E], err == common.ErrKeyNotFound.
IsMiss(err) == err = "ErrKeyNotFound"

\* The response of the first key whatever the index.
GetResponseOfFirst(cmd, idx, miss) ==
    [t |-> "data", Miss |-> miss, Quiet |-> cmd.Quiet[1], Opaque |-> cmd.Opaques[1],
     Key |-> cmd.Keys[1], Data |-> IF miss THEN "nil" ELSE "data"]

\* The response carries the opaque that went out on the wire.
GetResponseWithWireOpaque(cmd, idx, miss) ==
    [t |-> "data", Miss |-> miss, Quiet |-> cmd.Quiet[idx], Opaque |-> 0,
     Key |-> cmd.Keys[idx], Data |-> IF miss THEN "nil" ELSE "data"]

\* realHandleGet[E], common.Get[E]Response{...} for the key at idx.
GetResponse(cmd, idx, miss) ==
    [t |-> "data", Miss |-> miss, Quiet |-> cmd.Quiet[idx], Opaque |-> cmd.Opaques[idx],
     Key |-> cmd.Keys[idx], Data |-> IF miss THEN "nil" ELSE "data"]

\* realHandleGet[E], data, flags, exp, err := getLocal(...) and the choice of
\* what to send.
TaskRead ==
    /\ tpc = "read"
    /\ \E g \in getLocal(treq.Keys[tidx]) :
         /\ rstream' = g.rstream
         /\ store' = g.store
         /\ wbuf' = IF g.err = "ioFlush" THEN wbuf ELSE <<>>
         /\ blog' = Append(blog, BatchEvent("read", tidx, g.err))
         /\ broken' = (broken \/ ~g.own)
         /\ IF g.err # "nil" /\ ~IsMiss(g.err)
            THEN /\ tval' = [t |-> "err", err |-> g.err]
                 /\ tpc' = OnError
            ELSE /\ tval' = GetResponse(treq, tidx, g.err # "nil")
                 /\ tpc' = "sendData"
    /\ UNCHANGED <<werr, caller, treq, tidx, dataClosed, errClosed, recvd,
                   recvErr, abandoned>>

\* A send completes although nobody receives.
ReceiverNotNeeded == TRUE

\* The consumer of Get's channels: it receives from both until they are
\* closed, unless it has stopped receiving.  dataOut and errorOut are made
\* without a buffer, so a send completes only in a receive.
ReceiverWaiting == ~abandoned

\* The loop goes on to the next key.
AfterErrorContinue == "loop"

\* realHandleGet[E] after errorOut <- err: return.
AfterError == "closeData"

\* realHandleGet[E], dataOut <- response, received by the consumer.
SendData ==
    /\ tpc = "sendData"
    /\ ReceiverWaiting
    /\ recvd' = Append(recvd, tval)
    /\ blog' = Append(blog, BatchEvent("data", tidx, "nil"))
    /\ tval' = NoVal
    /\ tidx' = tidx + 1
    /\ tpc' = "loop"
    /\ UNCHANGED <<conn, broken, caller, treq, dataClosed, errClosed, recvErr, abandoned>>

\* realHandleGet[E], errorOut <- err, received by the consumer.
SendErr ==
    /\ tpc = "sendErr"
    /\ ReceiverWaiting
    /\ recvErr' = Append(recvErr, tval.err)
    /\ blog' = Append(blog, BatchEvent("error", tidx, "nil"))
    /\ tval' = NoVal
    /\ tidx' = IF AfterError = "loop" THEN tidx + 1 ELSE tidx
    /\ tpc' = AfterError
    /\ broken' = (broken \/ tval.err \in IOErrors)
    /\ UNCHANGED <<conn, caller, treq, dataClosed, errClosed, recvd, abandoned>>

\* The error channel is left open.
AfterCloseDataDone == "done"

\* The goroutine goes back to its loop after closing the data channel.
AfterCloseDataLoop == "loop"

\* realHandleGet[E], defer close(errorOut) runs after defer close(dataOut).
AfterCloseData == "closeErr"

\* realHandleGet[E], the deferred close(dataOut).
TaskCloseData ==
    /\ tpc = "closeData"
    /\ dataClosed' = TRUE
    /\ blog' = Append(blog, BatchEvent("closeData", 0, "nil"))
    /\ tpc' = AfterCloseData
    /\ UNCHANGED <<conn, broken, caller, treq, tidx, tval, errClosed, recvd, recvErr,
                   abandoned>>

\* realHandleGet[E], the deferred close(errorOut).
TaskCloseErr ==
    /\ tpc = "closeErr"
    /\ errClosed' = TRUE
    /\ blog' = Append(blog, BatchEvent("closeErr", 0, "nil"))
    /\ tpc' = "done"
    /\ UNCHANGED <<conn, broken, caller, treq, tidx, tval, dataClosed, recvd, recvErr,
                   abandoned>>

\* The caller stops receiving from the channels of a batch that has started.
Abandon ==
    /\ tpc \notin {"none", "done"}
    /\ ~abandoned
    /\ recvErr = <<>>
    /\ abandoned' = TRUE
    /\ UNCHANGED <<conn, broken, caller, tpc, treq, tidx, tval, dataClosed, errClosed,
                   recvd, recvErr, blog>>

\* ------------------------------------------------- GAT, Delete and Touch
\* The call goes on to its flush and read although the write failed.
WriteKeyCmdGoingOn(kind, key) ==
    /\ prevAddExists' = (ret.kind = "Add" /\ ret.err = "ErrKeyExists")
    /\ startClean' = (rstream = <<>>)
    /\ rstream' = Stale(rstream)
    /\ UNCHANGED <<store, resHeader, herr, pooled, wireHdr, broken>>
    /\ creq' = [kind |-> kind, key |-> key, len |-> 0]
    /\ cpc' = "local"
    /\ ret' = NoRet
    /\ \E ok \in BOOLEAN :
         /\ elog' = <<Event("cmd", 0, ok)>>
         /\ IF ok
            THEN /\ wbuf' = Append(wbuf, [t |-> "cmd", kind |-> kind, key |-> key,
                                          len |-> 0, opaque |-> 0])
                 /\ UNCHANGED werr
            ELSE /\ werr' = TRUE
                 /\ UNCHANGED wbuf

\* binprot.Write<Kind>Cmd(h.rw.Writer, cmd.Key, ..., 0) of GAT, Delete and
\* Touch and, when it fails, the return of its error.
WriteKeyCmd(kind, key) ==
    /\ prevAddExists' = (ret.kind = "Add" /\ ret.err = "ErrKeyExists")
    /\ startClean' = (rstream = <<>>)
    /\ rstream' = Stale(rstream)
    /\ UNCHANGED <<store, resHeader, herr, pooled, wireHdr>>
    /\ \E ok \in BOOLEAN :
         /\ elog' = <<Event("cmd", 0, ok)>>
         /\ IF ok
            THEN /\ wbuf' = Append(wbuf, [t |-> "cmd", kind |-> kind, key |-> key,
                                          len |-> 0, opaque |-> 0])
                 /\ creq' = [kind |-> kind, key |-> key, len |-> 0]
                 /\ cpc' = "local"
                 /\ ret' = NoRet
                 /\ UNCHANGED <<werr, broken>>
            ELSE /\ werr' = TRUE
                 /\ creq' = NoReq
                 /\ cpc' = "idle"
                 /\ broken' = TRUE
                 /\ ret' = [NoRet EXCEPT !.kind = kind, !.err = "ioWrite"]
                 /\ UNCHANGED wbuf

\* GAT up to the call of getLocal; GetResponse{} goes with the write error.
GAT(cmd) ==
    /\ CanCall
    /\ ResetBatch
    /\ WriteKeyCmd("GAT", cmd.Key)
    /\ gat' = [cmd |-> cmd, err |-> "nil",
               resp |-> IF cpc' = "idle" THEN ZeroGetResponse ELSE NoVal]

\* Delete up to the call of simpleCmdLocal.
Delete(cmd) ==
    /\ CanCall
    /\ ResetBatch
    /\ WriteKeyCmd("Delete", cmd.Key)
    /\ gat' = NoGat

\* Delete called while the batch task has not finished: the Handler has no
\* lock and Get returns with its goroutine running.  One such call is
\* followed per batch.
DeleteDuringBatch(cmd) ==
    /\ cpc = "idle"
    /\ ~broken
    /\ tpc \notin {"none", "done"}
    /\ ret = NoRet
    /\ WriteKeyCmd("Delete", cmd.Key)
    /\ gat' = NoGat
    /\ UNCHANGED batch

\* Touch up to the call of simpleCmdLocal.
Touch(cmd) ==
    /\ CanCall
    /\ ResetBatch
    /\ WriteKeyCmd("Touch", cmd.Key)
    /\ gat' = NoGat

\* A miss that carries the payload of a hit.
GATResponseWithData(cmd, miss) ==
    [t |-> "data", Miss |-> miss, Quiet |-> FALSE, Opaque |-> cmd.Opaque,
     Key |-> cmd.Key, Data |-> "data"]

\* GAT, common.GetResponse{...} of a miss and of a hit: Quiet is false.
GATResponse(cmd, miss) ==
    [t |-> "data", Miss |-> miss, Quiet |-> FALSE, Opaque |-> cmd.Opaque,
     Key |-> cmd.Key, Data |-> IF miss THEN "nil" ELSE "data"]

\* GAT from data, flags, _, err := getLocal(h.rw, false) to the return.
GATLocal ==
    /\ cpc = "local"
    /\ creq.kind = "GAT"
    /\ cpc' = "idle"
    /\ creq' = NoReq
    /\ \E g \in getLocal(creq.key) :
         /\ rstream' = g.rstream
         /\ store' = g.store
         /\ wbuf' = IF g.err = "ioFlush" THEN wbuf ELSE <<>>
         /\ elog' = Append(elog, Event("getLocal", 0, g.err \notin IOErrors))
         /\ broken' = (g.err \in IOErrors \/ ~g.own)
         /\ IF g.err # "nil" /\ g.err # "ErrKeyNotFound"
            THEN /\ ret' = [NoRet EXCEPT !.kind = "GAT", !.err = g.err, !.own = g.own]
                 /\ gat' = [gat EXCEPT !.err = g.err, !.resp = ZeroGetResponse]
            ELSE /\ ret' = [NoRet EXCEPT !.kind = "GAT", !.own = g.own]
                 /\ gat' = [gat EXCEPT !.err = g.err,
                                       !.resp = GATResponse(gat.cmd, g.err # "nil")]
    /\ UNCHANGED <<werr, resHeader, herr, pooled, wireHdr, prevAddExists, startClean,
                   batch>>

\* simpleCmdLocal(rw): flush, read the response header, discard the body the
\* header declares, on every status; the possible (err, rstream, store), and
\* whether the header decoded was the command's own.
simpleCmdLocal(kind, key) ==
    LET afterHeader(f) ==
            UNION {IF r.err = "ioRead"
                   THEN {[err |-> "ioRead", rstream |-> r.rest, store |-> f.store, own |-> TRUE]}
                   ELSE {[err |-> IF d.err = "nil" THEN r.err ELSE "ioDiscard",
                          rstream |-> d.rest, store |-> f.store,
                          own |-> r.tok.t = "H" /\ r.tok.own] :
                            d \in Discard(r.rest, r.hdr.TotalBodyLength)} :
                   r \in readResponseHeader(f.rstream)}
    IN  UNION {IF f.err # "nil"
               THEN {[err |-> f.err, rstream |-> f.rstream, store |-> f.store, own |-> TRUE]}
               ELSE afterHeader(f) : f \in FlushOutcomes(kind, key)}

\* Delete and Touch, return simpleCmdLocal(h.rw).
SimpleLocal ==
    /\ cpc = "local"
    /\ creq.kind \in {"Delete", "Touch"}
    /\ cpc' = "idle"
    /\ creq' = NoReq
    /\ \E g \in simpleCmdLocal(creq.kind, creq.key) :
         /\ rstream' = g.rstream
         /\ store' = g.store
         /\ wbuf' = IF g.err = "ioFlush" THEN wbuf ELSE <<>>
         /\ elog' = Append(elog, Event("simpleCmdLocal", 0, g.err \notin IOErrors))
         /\ broken' = (g.err \in IOErrors \/ ~g.own)
         /\ ret' = [NoRet EXCEPT !.kind = creq.kind, !.err = g.err, !.own = g.own]
    /\ UNCHANGED <<werr, resHeader, herr, pooled, wireHdr, prevAddExists, startClean,
                   gat, batch>>

\* The steps of the goroutine.
TaskNext ==
    \/ TaskLoopEnd
    \/ TaskWrite
    \/ TaskRead
    \/ SendData
    \/ SendErr
    \/ TaskCloseData
    \/ TaskCloseErr

Next ==
    \/ \E cmd \in SetRequests : Set(cmd)
    \/ \E cmd \in SetRequests : Add(cmd)
    \/ \E cmd \in SetRequests : Replace(cmd)
    \/ \E cmd \in SetRequests : Append_(cmd)
    \/ \E cmd \in SetRequests : Prepend(cmd)
    \/ WritePayload
    \/ Flush
    \/ ReadHeader
    \/ PoolReuse
    \/ Finish
    \/ \E cmd \in GetRequests : Get(cmd)
    \/ \E cmd \in GetRequests : GetE(cmd)
    \/ TaskLoopEnd
    \/ TaskWrite
    \/ TaskRead
    \/ SendData
    \/ SendErr
    \/ TaskCloseData
    \/ TaskCloseErr
    \/ Abandon
    \/ \E cmd \in GATRequests : GAT(cmd)
    \/ \E cmd \in DeleteRequests : Delete(cmd)
    \/ \E cmd \in TouchRequests : Touch(cmd)
    \/ GATLocal
    \/ SimpleLocal

Spec == Init /\ [][Next]_vars

\* Batches alone, with the goroutine scheduled as long as it can take a step
\* (a send can only be taken with the consumer receiving).
BatchNext ==
    \/ \E cmd \in GetRequests : Get(cmd)
    \/ \E cmd \in GetRequests : GetE(cmd)
    \/ TaskNext
    \/ Abandon

FairBatch == Init /\ [][BatchNext]_vars /\ WF_vars(TaskNext)

\* The batch task will still write to or read from h.rw.
TaskUsesConn ==
    \/ tpc = "read"
    \/ tpc = "loop" /\ tidx <= Len(treq.Keys)
    \/ tpc = "sendData" /\ tidx < Len(treq.Keys)

\* A synchronous call and the batch task both use h.rw.
Overlap == cpc # "idle" /\ TaskUsesConn

\* Two operations on the bufio buffers at once are a data race; the
\* connection is not followed beyond it: neither the goroutine nor the
\* command takes a further step.
TaskStepWithoutRace == ~Overlap /\ TaskNext

\* Delete's simpleCmdLocal, likewise.
CommandStepWithoutRace == ~Overlap /\ SimpleLocal

\* A caller that does not wait for the batch: batches read by a receiving
\* consumer, with Delete called between any two steps of the goroutine.
AnyCallerNext ==
    \/ \E cmd \in GetRequests : Get(cmd)
    \/ \E cmd \in GetRequests : GetE(cmd)
    \/ \E cmd \in DeleteRequests : DeleteDuringBatch(cmd)
    \/ TaskStepWithoutRace
    \/ CommandStepWithoutRace

AnyCaller == Init /\ [][AnyCallerNext]_vars


\* ------------------------------------------------------------- properties
Last(q) == q[Len(q)]

\* A mutation call has returned.
MutationReturned == cpc = "idle" /\ ret.kind \in MutationKinds

\* The returned call's last connection operation was the body discard.
Discarded == elog # <<>> /\ Last(elog).e = "discard"

ClassifiedErrors == {"ErrKeyNotFound", "ErrKeyExists", "ErrGeneric"}

\* C1: when a mutation call (Set, Add, Replace, Append, Prepend) that
\* received a response header returns without a transport error, it has
\* consumed exactly the body bytes the header declares, whatever the status.
C1_BodyConsumedWhateverStatus ==
    (MutationReturned /\ ret.got /\ ret.err \notin IOErrors)
        => ret.consumed = ret.declared

\* C7: the length handed to Discard is the total body length the response
\* header carried on the wire, also when the header object released to the
\* pool has been reused in between: nothing is read through the released
\* object.
C7_ReleasedHeaderNotRead ==
    (MutationReturned /\ Discarded /\ ret.own) => Last(elog).n = ret.wire

\* C7 witness: a call discarded a body after the pooled header was reused.
C7_Witness ==
    /\ MutationReturned
    /\ Discarded
    /\ ret.own
    /\ ret.reused
    /\ ret.wire > 0

\* C8: for each of the five mutation kinds alike, a response status
\* classified as an error makes the call discard exactly TotalBodyLength
\* bytes (never more; all of them when the discard succeeds) and then return
\* the classified error unchanged.
C8_ErrorBodyDiscarded ==
    (MutationReturned /\ ret.got /\ ret.status # "OK")
        => /\ Discarded
           /\ Last(elog).n = ret.declared
           /\ ret.consumed <= ret.declared
           /\ Last(elog).ok
                => /\ ret.consumed = ret.declared
                   /\ ret.err = DecodeError([status |-> ret.status])

\* C8 witness: a Replace of an absent key returned the classified error
\* after discarding a body of two bytes.
C8_Witness ==
    /\ MutationReturned
    /\ ret.kind = "Replace"
    /\ ret.err = "ErrKeyNotFound"
    /\ ret.consumed = 2

\* C9: an Add whose own response says the key exists returns ErrKeyExists
\* (unless the discard failed) with the read stream at the start of the next
\* response header, and the command issued next decodes its own header.
C9_AddExistsKeepsFraming ==
    /\ (MutationReturned /\ ret.kind = "Add" /\ ret.own /\ ret.status = "KeyExists"
            /\ ret.err \notin IOErrors)
         => (ret.err = "ErrKeyExists" /\ rstream = <<>>)
    /\ (prevAddExists /\ wireHdr.t # "none") => (wireHdr.t = "H" /\ wireHdr.own)

\* C9 witness: the command after an Add that returned ErrKeyExists has
\* completed on its own response header.
C9_Witness ==
    /\ prevAddExists
    /\ cpc = "idle"
    /\ ret.kind \in MutationKinds
    /\ ret.own

\* C10: when the status is classified as an error and the discard of the body
\* fails, the call returns the discard's I/O error; it returns the
\* classified error only when the discard succeeded.
C10_DiscardErrorWins ==
    (MutationReturned /\ ret.got /\ ret.status # "OK")
        => /\ (Discarded /\ ~Last(elog).ok) => ret.err = "ioDiscard"
           /\ ret.err \in ClassifiedErrors => (Discarded /\ Last(elog).ok)

\* C10 witness: a call whose response said the key exists returned the
\* discard's error.
C10_Witness ==
    /\ MutationReturned
    /\ ret.status = "KeyExists"
    /\ ret.own
    /\ ret.err = "ioDiscard"


\* The places of blog holding event e.
Places(e) == {j \in 1..Len(blog) : blog[j].e = e}

\* The response the request's key at index i gets on a miss.
MissResponse(i) ==
    [t |-> "data", Miss |-> TRUE, Quiet |-> treq.Quiet[i], Opaque |-> treq.Opaques[i],
     Key |-> treq.Keys[i], Data |-> "nil"]

\* C2: when the write or the read of the k-th key of a batch fails with an
\* error that is not key-not-found, exactly k-1 responses have gone out on
\* the data channel, then exactly one error on the error channel, then both
\* channels are closed; nothing is sent after the error and no command is
\* written for the keys after k.
C2_ErrorEndsBatch ==
    \A j \in Places("error") :
        /\ Len(recvErr) = 1
        /\ Cardinality(Places("error")) = 1
        /\ Len(recvd) = blog[j].i - 1
        /\ Cardinality({m \in Places("data") : m < j}) = blog[j].i - 1
        /\ \A m \in (j + 1)..Len(blog) : blog[m].e \in {"closeData", "closeErr"}
        /\ \A m \in Places("write") : blog[m].i <= blog[j].i
        /\ wbuf = <<>> \/ recvErr = <<"ioWrite">> \/ recvErr = <<"ioFlush">>
        /\ tpc \in {"closeData", "closeErr", "done"}
        /\ tpc = "done" => (dataClosed /\ errClosed)

\* C2 witness: a batch of three keys whose second read failed is over: one
\* response, one error, the third key never written.
C2_Witness ==
    /\ tpc = "done"
    /\ Len(treq.Keys) = 3
    /\ Len(recvd) = 1
    /\ recvErr = <<"ErrGeneric">>
    /\ dataClosed
    /\ errClosed

\* C3: the writes, reads and deliveries of a batch happen key by key in
\* request order (write 1, read 1, deliver 1, write 2, ...), and the i-th
\* response delivered carries Keys[i], Quiet[i] and Opaques[i].
C3_RequestOrder ==
    /\ \A j \in 1..Len(blog) :
         blog[j].e \in {"write", "read", "data"}
            => /\ blog[j].i = ((j - 1) \div 3) + 1
               /\ blog[j].e = <<"write", "read", "data">>[((j - 1) % 3) + 1]
    /\ Len(recvd) <= Len(treq.Keys)
    /\ \A i \in 1..Len(recvd) :
         /\ recvd[i].Key = treq.Keys[i]
         /\ recvd[i].Quiet = treq.Quiet[i]
         /\ recvd[i].Opaque = treq.Opaques[i]

\* C3 witness: three responses have been delivered, for keys that are not
\* all the same.
C3_Witness ==
    /\ Len(recvd) = 3
    /\ treq.Keys[1] # treq.Keys[2]
    /\ recvd[2].Opaque # recvd[1].Opaque

\* C4: a read that returns key-not-found never ends the batch: it is
\* followed by the send of a miss response (Miss set, no data, that key's
\* Quiet and Opaque) and by nothing else; a batch whose reads all returned
\* key-not-found ends with one miss response per key, in order, both
\* channels closed and no error sent.
C4_MissContinues ==
    /\ \A j \in Places("read") :
         blog[j].r = "ErrKeyNotFound"
            => /\ j = Len(blog) => (tpc = "sendData" /\ tval = MissResponse(blog[j].i))
               /\ j < Len(blog) =>
                    /\ blog[j + 1] = BatchEvent("data", blog[j].i, "nil")
                    /\ Len(recvd) >= blog[j].i
                    /\ recvd[blog[j].i] = MissResponse(blog[j].i)
    /\ (/\ tpc = "done"
        /\ Cardinality({j \in Places("read") : blog[j].r = "ErrKeyNotFound"}) = Len(treq.Keys))
         => /\ recvd = [i \in 1..Len(treq.Keys) |-> MissResponse(i)]
            /\ recvErr = <<>>
            /\ dataClosed
            /\ errClosed

\* C4 witness: a batch of three keys that all missed is over.
C4_Witness ==
    /\ tpc = "done"
    /\ Len(treq.Keys) = 3
    /\ \A i \in 1..3 : Len(recvd) = 3 /\ recvd[i].Miss

\* C5: with a consumer that keeps receiving (until its first error), a batch
\* that has started always ends with the goroutine finished and both
\* channels closed.
C5_BatchTerminates ==
    (tpc \notin {"none", "done"}) ~> (abandoned \/ (tpc = "done" /\ dataClosed /\ errClosed))

\* C5 witness: a batch that sent an error to a receiving consumer is over,
\* both channels closed.
C5_Witness ==
    /\ tpc = "done"
    /\ ~abandoned
    /\ recvErr # <<>>
    /\ dataClosed
    /\ errClosed

\* C6, as claimed: once the caller has stopped receiving, the goroutine
\* still always has a step to take until it is finished.
C6_CompletesUnread == abandoned => (tpc = "done" \/ ENABLED TaskNext)

\* C6, amended: once the caller has stopped receiving, a goroutine that has
\* reached a send stays there: it writes no further command, reads nothing
\* and closes neither channel.
C6_BlocksAtSend ==
    [][(abandoned /\ tpc \in {"sendData", "sendErr"})
          => UNCHANGED <<tpc, tidx, wbuf, rstream, dataClosed, errClosed, blog>>]_vars

\* C6 witness: the caller stopped receiving and the goroutine waits to send
\* the first response of a batch of three keys.
C6_Witness ==
    /\ abandoned
    /\ tpc = "sendData"
    /\ tidx = 1
    /\ Len(treq.Keys) = 3

\* The connection operations of the returned call that failed.
FailedEvents == {j \in 1..Len(elog) : ~elog[j].ok}

\* C11: a mutation call during which the command-header write, the payload
\* write, the flush, the response-header read or the body discard failed
\* returns a non-nil error; a call that returns nil has written the command
\* and the payload, flushed and read a header, all without failure, and the
\* header's status was success.
C11_NoTransportFailureSwallowed ==
    MutationReturned
        => /\ FailedEvents # {} => ret.err # "nil"
           /\ ret.err = "nil"
                => /\ FailedEvents = {}
                   /\ [j \in 1..Len(elog) |-> elog[j].e] = <<"cmd", "data", "flush", "rhdr">>
                   /\ ret.got
                   /\ ret.status = "OK"

\* C11 witness: a call whose payload write failed has returned the error
\* the flush reported.
C11_Witness ==
    /\ MutationReturned
    /\ Len(elog) = 3
    /\ elog[2].e = "data"
    /\ ~elog[2].ok
    /\ ret.err = "ioFlush"

\* A GAT call has returned.
GATReturned == cpc = "idle" /\ ret.kind = "GAT"

\* C12: a read whose answer is key-not-found yields a miss with no payload
\* and no error: in a batch the response delivered for key i has Miss set,
\* nil data, Keys[i], Quiet[i] and Opaques[i], and no error is sent for that
\* key; GAT returns a nil error and a response with Miss set, nil data, the
\* request's Key and Opaque, and Quiet false (a GATRequest has no quiet
\* flag).
C12_MissIsNotAnError ==
    /\ \A j \in Places("read") :
         (blog[j].r = "ErrKeyNotFound" /\ j < Len(blog))
            => /\ blog[j + 1].e = "data"
               /\ recvd[blog[j].i].Miss
               /\ recvd[blog[j].i].Data = "nil"
               /\ recvd[blog[j].i].Key = treq.Keys[blog[j].i]
               /\ recvd[blog[j].i].Quiet = treq.Quiet[blog[j].i]
               /\ recvd[blog[j].i].Opaque = treq.Opaques[blog[j].i]
               /\ \A m \in Places("error") : blog[m].i # blog[j].i
    /\ (GATReturned /\ gat.err = "ErrKeyNotFound")
         => /\ ret.err = "nil"
            /\ gat.resp.Miss
            /\ gat.resp.Data = "nil"
            /\ gat.resp.Key = gat.cmd.Key
            /\ gat.resp.Opaque = gat.cmd.Opaque
            /\ gat.resp.Quiet = FALSE

\* C12 witness: a GAT of an absent key has returned its miss.
C12_Witness ==
    /\ GATReturned
    /\ gat.err = "ErrKeyNotFound"
    /\ gat.cmd.Key \notin store
    /\ gat.cmd.Opaque = 9
    /\ ret.own

\* The consumer has what Get's comment asks it to wait for: one error, or
\* the data channel exhausted.
BatchOver == recvErr # <<>> \/ dataClosed

\* C13, as claimed: in every reachable state at most one operation, a
\* synchronous call or a batch task that has not finished, is using the
\* connection.
C13_OneOperationAtATime == ~(cpc # "idle" /\ tpc \notin {"none", "done"})

\* C13, amended: the Handler does not prevent a command from being called
\* while a batch task runs; a command and the task use the connection at
\* once only if the command was called before the batch delivered an error
\* or closed its data channel.  After either, the task writes and reads
\* nothing more.
C13_OverlapOnlyBeforeBatchOver ==
    /\ Overlap => ~BatchOver
    /\ BatchOver => ~TaskUsesConn

\* C13 witness: a command called after the consumer received the batch's
\* error is running while the task has still to close its channels.
C13_Witness ==
    /\ cpc = "local"
    /\ recvErr # <<>>
    /\ tpc \in {"closeData", "closeErr"}
    /\ Len(treq.Keys) = 3
    /\ Len(recvd) = 1

\* The reads of blog that returned an error other than key-not-found.
FailedReads == {j \in Places("read") : blog[j].r \notin {"nil", "ErrKeyNotFound"}}

\* C14: Get and GetE return no error themselves; every read that fails with
\* an error other than key-not-found is followed by the send of that error
\* on the error channel and of nothing on the data channel; at most one
\* error is ever sent, and it is the error of a failed write or read; the
\* responses sent plus the errors sent are at most the number of keys, and
\* a batch that ended without an error sent exactly one response per key.
C14_ErrorsOnceOnErrorChannel ==
    /\ tpc # "none" => ret = NoRet
    /\ Len(recvErr) <= 1
    /\ Cardinality(Places("error")) = Len(recvErr)
    /\ \A j \in FailedReads :
         IF j = Len(blog)
         THEN tpc = "sendErr" /\ tval.t = "err" /\ tval.err = blog[j].r
         ELSE blog[j + 1].e = "error" /\ recvErr = <<blog[j].r>>
    /\ \A j \in Places("error") :
         \/ recvErr = <<"ioWrite">> /\ (j = 1 \/ blog[j - 1].e = "data")
         \/ j - 1 \in FailedReads
    /\ \A i \in 1..Len(recvd) : recvd[i].t = "data"
    /\ Len(recvd) + Len(recvErr) <= Len(treq.Keys)
    /\ (tpc = "done" /\ recvErr = <<>>) => Len(recvd) = Len(treq.Keys)

\* C14 witness: a batch of three keys is over whose third command could not
\* be written: two responses and the one error.
C14_Witness ==
    /\ tpc = "done"
    /\ Len(treq.Keys) = 3
    /\ Len(recvd) = 2
    /\ recvErr = <<"ioWrite">>

\* C15: whenever the data channel is closed and the consumer has received
\* no error, no write and no read of the batch failed, every key was
\* written and read, and exactly one response per key was delivered; no
\* error is still to come.
C15_ClosedWithoutErrorIsComplete ==
    (dataClosed /\ recvErr = <<>>)
        => /\ Len(recvd) = Len(treq.Keys)
           /\ FailedReads = {}
           /\ {blog[j].i : j \in Places("read")} = 1..Len(treq.Keys)
           /\ {blog[j].i : j \in Places("write")} = 1..Len(treq.Keys)
           /\ tval = NoVal
           /\ tpc \in {"closeErr", "done"}

\* C15 witness: the data channel of a batch of three keys is closed, the
\* error channel not yet, and no error was received.
C15_Witness ==
    /\ dataClosed
    /\ ~errClosed
    /\ recvErr = <<>>
    /\ Len(treq.Keys) = 3
    /\ Len(recvd) = 3

\* A mutation call is running or was the last call to return.
InMutation == creq.kind \in MutationKinds \/ MutationReturned

\* The names of the connection operations of the current call, in order.
Ops == [j \in 1..Len(elog) |-> elog[j].e]

\* C16: the connection operations of a mutation call are, in this order,
\* the write of the command header, the write of the payload (of
\* len(payload) bytes, all of them buffered when it succeeds), the flush,
\* the read of one response header and at most one discard; the header is
\* read only after a flush that succeeded, and never twice; a call that
\* read a header with a success status returns no error.
C16_MutationOrder ==
    InMutation
        => /\ Ops = SubSeq(<<"cmd", "data", "flush", "rhdr", "discard">>, 1, Len(elog))
           /\ (Len(elog) >= 2 /\ cpc # "idle") => elog[2].n = creq.len
           /\ (cpc = "flush" /\ elog[2].ok)
                => /\ Len(wbuf) = 2
                   /\ wbuf[1].t = "cmd" /\ wbuf[1].kind = creq.kind
                   /\ wbuf[2].t = "data" /\ wbuf[2].len = creq.len
           /\ cpc = "rhdr" => (Len(elog) = 3 /\ elog[3].ok /\ wbuf = <<>>)
           /\ Len(elog) >= 4 => (elog[3].ok /\ elog[2].ok /\ elog[1].ok)
           /\ (MutationReturned /\ ret.got /\ ret.status = "OK")
                => (ret.err = "nil" /\ Len(elog) = 4)

\* C16 witness: a call with a payload of two bytes returned nil after the
\* four operations.
C16_Witness ==
    /\ MutationReturned
    /\ ret.err = "nil"
    /\ ret.own
    /\ Ops = <<"cmd", "data", "flush", "rhdr">>
    /\ elog[2].n = 2

\* The header read of the current call, once it has happened.
HeaderRead == elog[4]

\* C17: a mutation call whose ReadResponseHeader succeeded has released
\* that header with PutResponseHeader exactly once, whether its status is
\* success or a classified error; a call whose ReadResponseHeader failed
\* has released nothing, holds the zero header, and its discard is of 0
\* bytes.
C17_HeaderReleasedOnce ==
    (InMutation /\ Len(elog) >= 4)
        => /\ HeaderRead.e = "rhdr"
           /\ HeaderRead.ok => HeaderRead.n = 1
           /\ ~HeaderRead.ok => HeaderRead.n = 0
           /\ cpc = "discard"
                => IF HeaderRead.ok
                   THEN /\ pooled # NoHeader
                        /\ pooled.status = resHeader.status
                        /\ herr = DecodeError(resHeader)
                   ELSE /\ pooled = NoHeader
                        /\ resHeader = ZeroHeader
                        /\ herr = "ioRead"
                        /\ DiscardLen = 0
           /\ (cpc = "idle" /\ ~HeaderRead.ok)
                => /\ Discarded
                   /\ Last(elog).n = 0
                   /\ ret.consumed = 0
                   /\ ret.err = "ioRead"

\* C17 witness: a call has read a header whose status is a classified
\* error and released it once; its discard is still to come.
C17_Witness ==
    /\ cpc = "discard"
    /\ creq.kind \in MutationKinds
    /\ herr = "ErrKeyExists"
    /\ pooled = resHeader
    /\ HeaderRead.n = 1

\* The step is a synchronous call's write of its command header, failing.
HeaderWriteFails == cpc = "idle" /\ ~werr /\ werr' /\ tpc' = "none"

\* The step is the batch task's write of a key's command, failing.
TaskWriteFails == tpc = "loop" /\ ~werr /\ werr'

\* C18: a call of Set, Add, Replace, Append, Prepend, GAT, Delete or Touch
\* whose command-header write fails returns that error in the same step,
\* with nothing more written, nothing flushed to the server and nothing
\* taken from the read stream; a mutation whose flush fails returns the
\* flush error having read no header and discarded nothing; a batch task
\* whose command write fails for key k goes to send that error, and no read
\* for key k is ever made.
C18_FailedWriteStopsCall ==
    [][/\ HeaderWriteFails
            => /\ cpc' = "idle"
               /\ ret'.kind \in MutationKinds \cup {"GAT", "Delete", "Touch"}
               /\ ret'.err = "ioWrite"
               /\ elog' = <<Event("cmd", 0, FALSE)>>
               /\ wbuf' = wbuf
               /\ store' = store
               /\ Len(rstream') = Len(rstream)
       /\ Len(elog') >= 2 => elog'[1].ok
       /\ (cpc = "flush" /\ ~Last(elog').ok)
            => /\ cpc' = "idle"
               /\ ret'.err = "ioFlush"
               /\ ~ret'.got
               /\ ret'.consumed = 0
               /\ Ops' = <<"cmd", "data", "flush">>
               /\ store' = store
       /\ TaskWriteFails
            => /\ tpc' = "sendErr"
               /\ tval' = [t |-> "err", err |-> "ioWrite"]
               /\ rstream' = rstream
               /\ wbuf' = wbuf
               /\ blog' = blog
       /\ recvErr' = <<"ioWrite">>
            => /\ {blog'[m].i : m \in Places("read")'} = {blog'[m].i : m \in Places("write")'}
               /\ \A j \in Places("error")' : \A m \in Places("read")' : blog'[m].i < blog'[j].i
      ]_vars

\* C18 witness: a Touch whose command could not be written has returned the
\* write error.
C18_Witness ==
    /\ cpc = "idle"
    /\ ret.kind = "Touch"
    /\ ret.err = "ioWrite"
    /\ elog = <<Event("cmd", 0, FALSE)>>

\* C19: the error channel is closed only after the data channel; each
\* channel is closed at most once, close(dataOut) before close(errorOut);
\* after a channel's close nothing is sent on it, and after close(dataOut)
\* the goroutine does nothing but close(errorOut).
C19_DataClosedBeforeError ==
    /\ errClosed => dataClosed
    /\ Cardinality(Places("closeData")) = (IF dataClosed THEN 1 ELSE 0)
    /\ Cardinality(Places("closeErr")) = (IF errClosed THEN 1 ELSE 0)
    /\ \A j \in Places("closeData") :
         \A m \in (j + 1)..Len(blog) : m = j + 1 /\ blog[m].e = "closeErr"
    /\ \A j \in Places("closeErr") : j = Len(blog) /\ j - 1 \in Places("closeData")
    /\ dataClosed => (tpc \in {"closeErr", "done"} /\ tval = NoVal)
    /\ errClosed <=> tpc = "done"

\* C19 witness: both channels of a batch that sent an error after one
\* response are closed.
C19_Witness ==
    /\ errClosed
    /\ dataClosed
    /\ Len(recvd) = 1
    /\ Len(recvErr) = 1
    /\ Last(blog).e = "closeErr"

\* C20: every command is written with opaque 0, whatever token the caller
\* gave; the Opaque of the i-th response of a batch, sent or about to be
\* sent, is Opaques[i], and the Opaque of the response GAT returns without
\* an error is the request's Opaque, for hits and misses alike.
C20_OpaqueNotOnWire ==
    /\ \A j \in 1..Len(wbuf) : wbuf[j].opaque = 0
    /\ \A i \in 1..Len(recvd) : recvd[i].Opaque = treq.Opaques[i]
    /\ tpc = "sendData" => tval.Opaque = treq.Opaques[tidx]
    /\ (GATReturned /\ ret.err = "nil")
         => /\ gat.resp.Opaque = gat.cmd.Opaque
            /\ gat.resp.Miss = (gat.err = "ErrKeyNotFound")

\* C20 witness: a miss and then a hit were delivered, each with its own
\* token, and the third key's command is in the write buffer.
C20_Witness ==
    /\ Len(recvd) = 2
    /\ recvd[1].Miss
    /\ ~recvd[2].Miss
    /\ recvd[1].Opaque = 9
    /\ recvd[2].Opaque = 7
    /\ tpc = "read"
    /\ Len(wbuf) = 1

=============================================================================
